---- MODULE Spec2Model ----
(***************************************************************************)
(* Node-Learner: the incremental knowledge-graph engine of                 *)
(* src/visualizer.py (show_visualizer, create_knowledge_graph,             *)
(* add_subnodes_to_graph) together with the storage calls of src/db.py.    *)
(*                                                                         *)
(* One action of the model is one complete run of show_visualizer for one  *)
(* user event (Streamlit reruns the whole script for every event).         *)
(* show_visualizer is only reached for an authenticated user               *)
(* (src/app.py:214-221).  The Logout button of the sidebar                 *)
(* (src/app.py:162-170) deletes the keys of st.session_state; a deleted    *)
(* key is modelled by the default that lines 228-257 give it in the next   *)
(* run, and the deleted exploration_start_time, whose default is the time  *)
(* of that run, by NoTime.                                                 *)
(*                                                                         *)
(* A string is modelled as the non-empty sequence of its underscore-free   *)
(* pieces: "A_B" is <<"A", "B">>, "T" is <<"T">>, "" is <<"">>.  Joining   *)
(* two strings with "_" is concatenation of the sequences, and             *)
(* str.split('_') is the sequence itself.                                  *)
(***************************************************************************)
EXTENDS Integers, Sequences, FiniteSets, TLC

VARIABLES
    topic,                   \* st.session_state.topic
    graph,                   \* st.session_state.graph (None is the empty graph)
    current_node,            \* st.session_state.current_node
    nodes_explored,          \* st.session_state.nodes_explored
    subnodes_expanded,       \* st.session_state.subnodes_expanded
    auto_expand,             \* st.session_state.auto_expand
    expansion_queue,         \* st.session_state.expansion_queue
    exploration_start_time,  \* st.session_state.exploration_start_time
    now,                     \* time.time(), in seconds
    knowledge_trees,         \* the knowledge_trees collection, in insertion order
    learning_sessions,       \* the learning_sessions collection, in insertion order
    uuid_next,               \* the next value uuid.uuid4() hands out
    load_tree_id,            \* st.session_state.load_tree_id (None is NoTree)
    load_topic,              \* st.session_state.load_topic
    authenticated            \* st.session_state.authenticated

vars == <<topic, graph, current_node, nodes_explored, subnodes_expanded,
          auto_expand, expansion_queue, exploration_start_time, now,
          knowledge_trees, learning_sessions, uuid_next, load_tree_id,
          load_topic, authenticated>>

----------------------------------------------------------------------------
(* Bounds of the model *)

MaxConcepts == 2      \* longest related_concepts list the AI returns
MaxTrees == 1         \* Explore is disabled once this many trees are stored
MaxTime == 31         \* the clock stops advancing here
MaxLevel == 11        \* deepest level of a node that is expanded
MaxIds == 1           \* Explore is disabled once uuid4 handed out this many values

(* Program constants *)

DwellThreshold == 30  \* "if time_spent > 30"

TickSteps == {31}

TopicInputs == {<<"T">>}              \* what the user types as a topic
ConceptNames == {<<"T">>, <<"A">>, <<"B">>}   \* the names the AI gives to concepts
SubtopicNames == {<<"B">>}            \* the names the AI gives to subtopics
Labels == TopicInputs \cup ConceptNames \cup SubtopicNames
EmptyStr == <<"">>
NoneVal == <<>>            \* Python's None where a label is expected
NoTree == 0                \* Python's None where the id of a tree is expected
NoTime == -1               \* 'exploration_start_time' not in st.session_state
UserId == "u1"

Truthy(str) == str # NoneVal /\ str # EmptyStr

----------------------------------------------------------------------------
(* networkx.Graph as the code uses it: nodes and edges in insertion order,  *)
(* one attribute dictionary per node and per edge.                          *)

EmptyGraph == [nodes |-> <<>>, edges |-> <<>>]
EmptyAttrs == [x \in {} |-> 0]

NodeLabels(G) == {G.nodes[i].label : i \in DOMAIN G.nodes}
HasNode(G, n) == n \in NodeLabels(G)
NodeIndex(G, n) == CHOOSE i \in DOMAIN G.nodes : G.nodes[i].label = n
NodeAttrs(G, n) == G.nodes[NodeIndex(G, n)].attrs
NumNodes(G) == Len(G.nodes)
NumEdges(G) == Len(G.edges)
GraphTruthy(G) == NumNodes(G) > 0

SameEdge(e, u, v) == (e.u = u /\ e.v = v) \/ (e.u = v /\ e.v = u)
HasEdge(G, u, v) == \E i \in DOMAIN G.edges : SameEdge(G.edges[i], u, v)

(* G.add_node(n, **attrs): a new label is appended, an existing label keeps *)
(* its node and has its attributes updated.                                 *)
add_node_always_appends(G, n, attrs) ==
    [G EXCEPT !.nodes = Append(@, [label |-> n, attrs |-> attrs])]

add_node(G, n, attrs) ==
    IF HasNode(G, n)
    THEN [G EXCEPT !.nodes[NodeIndex(G, n)].attrs = attrs @@ @]
    ELSE [G EXCEPT !.nodes = Append(@, [label |-> n, attrs |-> attrs])]

(* G.add_edge(u, v, **attrs): missing endpoints are created without         *)
(* attributes; the graph is undirected and holds one edge per pair.         *)
ensure_node(G, n) == IF HasNode(G, n) THEN G ELSE add_node(G, n, EmptyAttrs)

set_edge(G, u, v, attrs) ==
    IF HasEdge(G, u, v)
    THEN LET i == CHOOSE j \in DOMAIN G.edges : SameEdge(G.edges[j], u, v)
         IN  [G EXCEPT !.edges[i].attrs = attrs @@ @]
    ELSE [G EXCEPT !.edges = Append(@, [u |-> u, v |-> v, attrs |-> attrs])]

add_edge(G, u, v, attrs) == set_edge(ensure_node(ensure_node(G, u), v), u, v, attrs)

----------------------------------------------------------------------------
(* What the AI collaborator returns: whatever JSON text the language model *)
(* wrote, parsed by json.loads and handed on unchanged.  The answer names   *)
(* its own topic, which need not be the topic asked about; any key of the   *)
(* answer and of a concept record may be missing; a concept may bear any    *)
(* name, the topic's and an earlier concept's included; the answer may be   *)
(* a JSON array instead of an object.                                       *)

Concept(l) == [name |-> l, relation |-> "rel", summary |-> "sum"]
ConceptNoRelation(l) == [name |-> l, summary |-> "sum"]
ConceptNoSummary(l) == [name |-> l, relation |-> "rel"]
ConceptNoName == [relation |-> "rel", summary |-> "sum"]

SeqsUpTo(S, n) == UNION {[1..k -> S] : k \in 0..n}

(* The names the AI gives to records that lack a field. *)
IncompleteNames == {<<"B">>}

ConceptRecords(names) ==
    {Concept(l) : l \in names}
        \cup {ConceptNoRelation(l) : l \in names \cap IncompleteNames}
        \cup {ConceptNoSummary(l) : l \in names \cap IncompleteNames}
        \cup {ConceptNoName}

(* The lists of at most MaxConcepts concept records an answer may hold. *)
ConceptLists(names) == SeqsUpTo(ConceptRecords(names), MaxConcepts)

Has(rec, key) == key \in DOMAIN rec

SubtopicRecords ==
    {[name |-> l, summary |-> "sum"] : l \in SubtopicNames}
        \cup {[name |-> l] : l \in SubtopicNames}
SubtopicLists == SeqsUpTo(SubtopicRecords, MaxConcepts)

(* A parsed JSON array: it has none of the keys of an object, and           *)
(* subscripting it with a key or calling .get on it raises.                 *)
JsonArray == [array |-> <<>>]
IsArray(data) == Has(data, "array")

(* The topics an answer about t may name. *)
AnswerTopics(t) == {t, <<"A">>}

(* The JSON objects an answer to explore_topic may be. *)
TopicObjects(t) ==
    UNION {{[topic |-> a, summary |-> "sum", related_concepts |-> cl,
             subtopics |-> sl] :
               a \in AnswerTopics(t),
               sl \in {l \in SubtopicLists : Len(cl) + Len(l) <= MaxConcepts}} :
           cl \in ConceptLists(ConceptNames)}
    \cup {[topic |-> a, summary |-> "sum", related_concepts |-> cl] :
             a \in AnswerTopics(t), cl \in ConceptLists(ConceptNames)}
    \cup {[summary |-> "sum", related_concepts |-> cl] :
             cl \in ConceptLists(ConceptNames)}
    \cup {[topic |-> a] : a \in AnswerTopics(t)}

(* The outcome of one HTTP request to the model and of parsing its answer   *)
(* (json.loads, ai_explainer.py:124 and 226): an exception inside the       *)
(* method's try block, or the parsed JSON value.                            *)
TopicResponses(t) ==
    {[failed |-> TRUE]} \cup {[failed |-> FALSE, json |-> JsonArray]}
        \cup {[failed |-> FALSE, json |-> o] : o \in TopicObjects(t)}

SubtopicResponses ==
    {[failed |-> TRUE]} \cup {[failed |-> FALSE, json |-> JsonArray]}
        \cup {[failed |-> FALSE, json |-> [summary |-> "sum"]]}
        \cup {[failed |-> FALSE,
               json |-> [summary |-> "sum", related_concepts |-> cl]] :
                 cl \in ConceptLists(ConceptNames)}

(* AIExplorer.explore_topic: the parsed answer, or the fallback object of   *)
(* the except branch.                                                       *)
explore_topic(t, resp) ==
    IF resp.failed
    THEN [topic |-> t, summary |-> "failed", related_concepts |-> <<>>]
    ELSE resp.json

(* AIExplorer.explore_subtopic: the parsed answer, or the fallback object   *)
(* of the except branch.                                                    *)
explore_subtopic(main_topic, subtopic, resp) ==
    IF resp.failed
    THEN [subtopic |-> subtopic, main_topic |-> main_topic,
          summary |-> "failed", related_concepts |-> <<>>]
    ELSE resp.json

(* dict.get(key, default) *)
Get(rec, key, default) == IF Has(rec, key) THEN rec[key] ELSE default

----------------------------------------------------------------------------
(* create_knowledge_graph(topic_data).  The result is [exc, G, uuid]: exc   *)
(* when a required key is missing (KeyError) or the answer is an array      *)
(* (TypeError), else the graph built and the uuid counter after it.         *)

(* The body of the loop over related_concepts (lines 23-27), without its    *)
(* G.add_edge call.                                                         *)
add_concept_without_edge(acc, main_topic, concept) ==
    IF ~(Has(concept, "name") /\ Has(concept, "summary")
           /\ Has(concept, "relation"))
    THEN [acc EXCEPT !.exc = TRUE]
    ELSE [exc |-> FALSE,
          G |-> add_node(acc.G, concept.name,
                    [size |-> 15, color |-> "#7C4DFF",
                     title |-> concept.summary, type |-> "concept",
                     level |-> 1, parent |-> main_topic, node_id |-> acc.uuid]),
          uuid |-> acc.uuid + 1]

(* The body of the loop over related_concepts (lines 23-27). *)
add_concept(acc, main_topic, concept) ==
    IF ~(Has(concept, "name") /\ Has(concept, "summary")
           /\ Has(concept, "relation"))
    THEN [acc EXCEPT !.exc = TRUE]
    ELSE LET G1 == add_node(acc.G, concept.name,
                       [size |-> 15, color |-> "#7C4DFF",
                        title |-> concept.summary, type |-> "concept",
                        level |-> 1, parent |-> main_topic,
                        node_id |-> acc.uuid])
             G2 == add_edge(G1, main_topic, concept.name,
                       [title |-> concept.relation, weight |-> 1])
         IN  [exc |-> FALSE, G |-> G2, uuid |-> acc.uuid + 1]

(* The body of the loop over subtopics (lines 31-35). *)
add_subtopic(acc, main_topic, subtopic) ==
    IF ~(Has(subtopic, "name") /\ Has(subtopic, "summary"))
    THEN [acc EXCEPT !.exc = TRUE]
    ELSE LET G1 == add_node(acc.G, subtopic.name,
                       [size |-> 20, color |-> "#3949AB",
                        title |-> subtopic.summary, type |-> "subtopic",
                        level |-> 1, parent |-> main_topic,
                        node_id |-> acc.uuid])
             G2 == add_edge(G1, main_topic, subtopic.name,
                       [title |-> "subtopic", weight |-> 1])
         IN  [exc |-> FALSE, G |-> G2, uuid |-> acc.uuid + 1]

RECURSIVE CkgConcepts(_, _, _, _)
CkgConcepts(acc, main_topic, list, i) ==
    IF acc.exc \/ i > Len(list) THEN acc
    ELSE CkgConcepts(add_concept(acc, main_topic, list[i]), main_topic, list, i + 1)

RECURSIVE CkgSubtopics(_, _, _, _)
CkgSubtopics(acc, main_topic, list, i) ==
    IF acc.exc \/ i > Len(list) THEN acc
    ELSE CkgSubtopics(add_subtopic(acc, main_topic, list[i]), main_topic, list, i + 1)

create_knowledge_graph(topic_data, uuid) ==
    IF ~(Has(topic_data, "topic") /\ Has(topic_data, "summary"))
    THEN [exc |-> TRUE, G |-> EmptyGraph, uuid |-> uuid]
    ELSE LET main_topic == topic_data.topic
             G0 == add_node(EmptyGraph, main_topic,
                       [size |-> 25, color |-> "#6200EA",
                        title |-> topic_data.summary, type |-> "main",
                        level |-> 0, node_id |-> uuid])
             a0 == [exc |-> FALSE, G |-> G0, uuid |-> uuid + 1]
             a1 == CkgConcepts(a0, main_topic,
                               Get(topic_data, "related_concepts", <<>>), 1)
         IN  CkgSubtopics(a1, main_topic, Get(topic_data, "subtopics", <<>>), 1)

----------------------------------------------------------------------------
(* add_subnodes_to_graph(G, node_name, subnodes_data).  G is updated in     *)
(* place, so the graph of the result is what G holds when the loop ends or  *)
(* a KeyError leaves it.  uuid.uuid4() is drawn for every concept; a value  *)
(* that is not stored is not observable, so the counter advances only when  *)
(* a node is created.                                                       *)

colors == <<"#E91E63", "#00BCD4", "#FF9800", "#4CAF50", "#9C27B0">>

Min(a, b) == IF a < b THEN a ELSE b

(* The colour picked without the modulo: every level past the palette gets  *)
(* the last colour.                                                         *)
level_color_without_wrap(parent_level) ==
    colors[Min(parent_level + 1, Len(colors) - 1) + 1]

level_color(parent_level) ==
    colors[Min((parent_level + 1) % Len(colors), Len(colors) - 1) + 1]

(* The body of the loop (lines 47-72) without the test of line 51: a name   *)
(* that is a node already is added again.                                   *)
add_subnode_overwrites_existing(acc, node_name, parent_level, subnode) ==
    IF ~(Has(subnode, "name") /\ Has(subnode, "summary"))
    THEN [acc EXCEPT !.exc = TRUE]
    ELSE [exc |-> FALSE,
          G |-> add_edge(add_node(acc.G, subnode.name,
                             [size |-> 12, color |-> level_color(parent_level),
                              title |-> subnode.summary, type |-> "sub-concept",
                              level |-> parent_level + 1, parent |-> node_name,
                              node_id |-> acc.uuid]),
                    node_name, subnode.name,
                    [title |-> Get(subnode, "relation", "related to"),
                     weight |-> 1]),
          uuid |-> acc.uuid + 1]

(* The body of the loop (lines 47-72): subnode["name"] is read first, then  *)
(* a name that is a node already is skipped, node and edge together.        *)
add_subnode(acc, node_name, parent_level, subnode) ==
    IF ~Has(subnode, "name") THEN [acc EXCEPT !.exc = TRUE]
    ELSE IF HasNode(acc.G, subnode.name) THEN acc
    ELSE IF ~Has(subnode, "summary") THEN [acc EXCEPT !.exc = TRUE]
    ELSE LET G1 == add_node(acc.G, subnode.name,
                       [size |-> 12, color |-> level_color(parent_level),
                        title |-> subnode.summary, type |-> "sub-concept",
                        level |-> parent_level + 1, parent |-> node_name,
                        node_id |-> acc.uuid])
             G2 == add_edge(G1, node_name, subnode.name,
                       [title |-> Get(subnode, "relation", "related to"),
                        weight |-> 1])
         IN  [exc |-> FALSE, G |-> G2, uuid |-> acc.uuid + 1]

RECURSIVE AddSubnodes(_, _, _, _, _)
AddSubnodes(acc, node_name, parent_level, list, i) ==
    IF acc.exc \/ i > Len(list) THEN acc
    ELSE AddSubnodes(add_subnode(acc, node_name, parent_level, list[i]),
                     node_name, parent_level, list, i + 1)

add_subnodes_to_graph(G, node_name, subnodes_data, uuid) ==
    LET parent_level == Get(NodeAttrs(G, node_name), "level", 0)
    IN  IF IsArray(subnodes_data)      \* a list has no .get: AttributeError
        THEN [exc |-> TRUE, G |-> G, uuid |-> uuid]
        ELSE AddSubnodes([exc |-> FALSE, G |-> G, uuid |-> uuid], node_name,
                         parent_level,
                         Get(subnodes_data, "related_concepts", <<>>), 1)

----------------------------------------------------------------------------
(* The flat node map and edge map handed to storage.  A Python dict is      *)
(* modelled as the sequence of its [key, value] items in insertion order.   *)

DictKeys(d) == {d[i].key : i \in DOMAIN d}

DictPut(d, k, v) ==
    IF k \in DictKeys(d)
    THEN LET i == CHOOSE j \in DOMAIN d : d[j].key = k
         IN  [d EXCEPT ![i].value = v]
    ELSE Append(d, [key |-> k, value |-> v])

(* G.edges(): every edge once, reported from its endpoint that was added    *)
(* to the graph first, nodes in insertion order.                            *)
OtherEnd(e, n) == IF e.u = n THEN e.v ELSE e.u

RECURSIVE EdgesFrom(_, _)
EdgesFrom(G, i) ==
    IF i > Len(G.nodes) THEN <<>>
    ELSE LET n == G.nodes[i].label
             Mine(e) == (e.u = n \/ e.v = n)
                           /\ NodeIndex(G, OtherEnd(e, n)) >= i
             Orient(e) == <<n, OtherEnd(e, n), e.attrs>>
             own == SelectSeq(G.edges, Mine)
         IN  [k \in DOMAIN own |-> Orient(own[k])] \o EdgesFrom(G, i + 1)

edges_view(G) == EdgesFrom(G, 1)

nodes_to_dict(G) ==
    [i \in DOMAIN G.nodes |-> [key |-> G.nodes[i].label, value |-> G.nodes[i].attrs]]

RECURSIVE EdgesToDict(_, _, _)
EdgesToDict(d, ev, i) ==
    IF i > Len(ev) THEN d
    ELSE EdgesToDict(DictPut(d, ev[i][1] \o ev[i][2], ev[i][3]), ev, i + 1)

(* edge_key = f"{edge[0]}_{edge[1]}" *)
edges_to_dict(G) == EdgesToDict(<<>>, edges_view(G), 1)

----------------------------------------------------------------------------
(* src/db.py: the knowledge_trees and learning_sessions collections.  Every *)
(* method runs its database calls inside try/except Exception: ok is FALSE  *)
(* when a call of the method raises (the server cannot be reached).         *)

SaveKeywords == {"graph_image", "update"}

MatchTree(doc, user_id, t) == doc.user_id = user_id /\ doc.topic = t

(* MongoDBConnection.save_knowledge_tree.  kwargs are the keyword arguments *)
(* of the call: a keyword the method does not declare is a TypeError raised *)
(* at the call.  The result is [exc, stored, trees, ret]; the except branch *)
(* stores nothing and returns None.                                         *)
save_knowledge_tree(trees, user_id, t, nodes_dict, edges_dict, kwargs, update, time, ok) ==
    IF ~(kwargs \subseteq SaveKeywords)
    THEN [exc |-> TRUE, stored |-> FALSE, trees |-> trees, ret |-> NoTree]
    ELSE IF ~ok
    THEN [exc |-> FALSE, stored |-> FALSE, trees |-> trees, ret |-> NoTree]
    ELSE LET graph_data == [nodes |-> nodes_dict, edges |-> edges_dict]
             hit == {i \in DOMAIN trees : MatchTree(trees[i], user_id, t)}
         IN  IF update /\ hit # {}
             THEN LET i == CHOOSE j \in hit : \A k \in hit : j <= k
                  IN  [exc |-> FALSE, stored |-> TRUE,
                       trees |-> [trees EXCEPT ![i].created_at = time,
                                               ![i].graph_data = graph_data],
                       ret |-> t]
             ELSE [exc |-> FALSE, stored |-> TRUE,
                   trees |-> Append(trees,
                       [id |-> Len(trees) + 1, user_id |-> user_id, topic |-> t,
                        created_at |-> time, graph_data |-> graph_data]),
                   ret |-> IF update THEN t ELSE Len(trees) + 1]

(* cursor.sort("last_modified", -1) (line 129): no document has the field   *)
(* last_modified, so the sort key of every document is the same and the     *)
(* order of the result is the server's choice.  order ranks the document    *)
(* ids; the result lists the documents by rank.                             *)
Rank(order, id) == IF id \in DOMAIN order THEN order[id] ELSE id

RECURSIVE SortedBy(_, _)
SortedBy(docs, order) ==
    IF docs = <<>> THEN <<>>
    ELSE LET i == CHOOSE j \in DOMAIN docs :
                      \A k \in DOMAIN docs :
                          Rank(order, docs[j].id) <= Rank(order, docs[k].id)
             rest == [k \in 1..(Len(docs) - 1) |->
                         IF k < i THEN docs[k] ELSE docs[k + 1]]
         IN  <<docs[i]>> \o SortedBy(rest, order)

(* MongoDBConnection.get_knowledge_tree(user_id, topic=None) *)
get_knowledge_tree(trees, user_id, t, ok, order) ==
    LET Wanted(doc) == doc.user_id = user_id /\ (Truthy(t) => doc.topic = t)
    IN  IF ~ok THEN <<>> ELSE SortedBy(SelectSeq(trees, Wanted), order)

(* MongoDBConnection.get_knowledge_tree_by_id(tree_id): the result is       *)
(* [found, doc]; found is FALSE for None.                                   *)
get_knowledge_tree_by_id(trees, tree_id, ok) ==
    LET hit == {i \in DOMAIN trees : trees[i].id = tree_id}
    IN  IF ~ok \/ hit = {}
        THEN [found |-> FALSE]
        ELSE [found |-> TRUE, doc |-> trees[CHOOSE i \in hit : TRUE]]

(* MongoDBConnection.log_learning_session *)
log_learning_session(sessions, user_id, t, tree_id, explored, time_spent, time, ok) ==
    IF ~ok THEN sessions
    ELSE Append(sessions,
        [user_id |-> user_id, topic |-> t, tree_id |-> tree_id,
         nodes_explored |-> explored, node_count |-> Cardinality(explored),
         time_spent |-> time_spent, timestamp |-> time])

(* What the database does during one run: whether its calls go through,     *)
(* and the order in which a find lists documents with equal sort keys.      *)
Orders ==
    {f \in [1..(MaxTrees + 1) -> 1..(MaxTrees + 1)] :
        \A i, j \in 1..(MaxTrees + 1) : f[i] = f[j] => i = j}
CalmEnv == [db |-> TRUE, order |-> [i \in 1..(MaxTrees + 1) |-> i]]
DownEnv == [CalmEnv EXCEPT !.db = FALSE]
Envs == {[db |-> TRUE, order |-> o] : o \in Orders} \cup {DownEnv}

----------------------------------------------------------------------------
(* One run of show_visualizer.  The run works on a record of the session    *)
(* state and the collections; exc is set when an exception leaves the run   *)
(* (the rest of the script is skipped).  The                                *)
(* field last is the log of the run: the event it served (op, arg), what    *)
(* its AI call did (ai: "none", "ok", or "failed" for the fallback object), *)
(* whether an exception left the graph builder (keyerr), the returned names *)
(* that were nodes already (dup), the label the auto-expand step took from  *)
(* the queue (popped), what the save of the graph did (save: "none",       *)
(* "ok", "error" when the method's except branch returned None, or          *)
(* "failed" when the call raised), what became of the query parameter       *)
(* (param: "none", "read", or "error" when its handler's except clause      *)
(* caught an exception), and what the session log did (log: "none", "ok",   *)
(* or "error" when log_learning_session returned None), and whether the     *)
(* run ended in st.rerun() (rerun).                                         *)

NoLast == [op |-> "none", arg |-> NoneVal, ai |-> "none", keyerr |-> FALSE,
           dup |-> {}, popped |-> NoneVal, save |-> "none", param |-> "none",
           log |-> "none", rerun |-> FALSE]

Session ==
    [topic |-> topic, graph |-> graph, current_node |-> current_node,
     nodes_explored |-> nodes_explored, subnodes_expanded |-> subnodes_expanded,
     auto_expand |-> auto_expand, expansion_queue |-> expansion_queue,
     exploration_start_time |-> exploration_start_time,
     knowledge_trees |-> knowledge_trees, learning_sessions |-> learning_sessions,
     uuid_next |-> uuid_next, load_tree_id |-> load_tree_id,
     load_topic |-> load_topic, env |-> CalmEnv, last |-> NoLast, exc |-> FALSE]

(* The session in a run during which the database behaves as e says. *)
SessionIn(e) == [Session EXCEPT !.env = e]

AiOutcome(resp) == IF resp.failed THEN "failed" ELSE "ok"

(* The methods class AIExplorer defines (src/ai_explainer.py). *)
AIExplorerMethods ==
    {"explore_topic", "_explore_with_google", "_explore_with_groq",
     "get_detailed_explanation", "explore_subtopic"}

(* Lines 308-347: reopen a stored tree.  The node map and the edge map are  *)
(* read from the top level of the document.                                 *)
RECURSIVE LoadNodes(_, _, _)
LoadNodes(G, d, i) ==
    IF i > Len(d) THEN G
    ELSE LoadNodes(add_node(G, d[i].key, d[i].value), d, i + 1)

RECURSIVE LoadEdges(_, _, _)
LoadEdges(G, d, i) ==
    IF i > Len(d) THEN G
    ELSE LET nodes == d[i].key          \* edge_key.split('_')
         IN  IF Len(nodes) >= 2
             THEN LoadEdges(add_edge(G, <<nodes[1]>>, <<nodes[2]>>, d[i].value),
                            d, i + 1)
             ELSE LoadEdges(G, d, i + 1)

graph_from_tree(tree) ==
    LoadEdges(LoadNodes(EmptyGraph, Get(tree, "nodes", <<>>), 1),
              Get(tree, "edges", <<>>), 1)

(* src/utils.py, nodes_edges_to_networkx(nodes, edges): the result is       *)
(* [exc, G].  "source, target = edge_key.split('_')" raises ValueError for  *)
(* a key that does not split into two pieces.                               *)
RECURSIVE NxEdges(_, _, _)
NxEdges(acc, d, i) ==
    IF acc.exc \/ i > Len(d) THEN acc
    ELSE IF Len(d[i].key) # 2 THEN [acc EXCEPT !.exc = TRUE]
    ELSE NxEdges([acc EXCEPT !.G = add_edge(@, <<d[i].key[1]>>, <<d[i].key[2]>>,
                                            d[i].value)],
                 d, i + 1)

nodes_edges_to_networkx(nodes, edges) ==
    NxEdges([exc |-> FALSE, G |-> LoadNodes(EmptyGraph, nodes, 1)], edges, 1)

(* Lines 228-257: the keys that are not in st.session_state get their      *)
(* defaults; exploration_start_time gets the time of the run.               *)
InitSegment(s, time) ==
    IF s.exploration_start_time = NoTime
    THEN [s EXCEPT !.exploration_start_time = time]
    ELSE s

(* Lines 311-347: the tree was found. *)
LoadSegment(s, tree, time) ==
    [s EXCEPT !.topic = s.load_topic,
              !.graph = graph_from_tree(tree),
              !.current_node = s.load_topic,
              !.nodes_explored = {s.load_topic},
              !.exploration_start_time = time,
              !.load_tree_id = NoTree,
              !.load_topic = NoneVal]

(* Lines 306-347: the check of the load flags at the start of the script.   *)
(* The flags stay set when the tree is not found.                           *)
LoadCheckSegment(s, time) ==
    IF ~(s.load_tree_id # NoTree /\ Truthy(s.load_topic)) THEN s
    ELSE LET tree == get_knowledge_tree_by_id(s.knowledge_trees, s.load_tree_id,
                                              s.env.db)
         IN  IF tree.found THEN LoadSegment(s, tree.doc, time) ELSE s

(* Lines 351-358: the text input; a typed text replaces the topic. *)
TopicInputSegment(s, ev) ==
    IF ev.kind = "type"
    THEN [s EXCEPT !.topic = ev.text, !.last.op = "type"]
    ELSE s

(* The save of the session's graph, with a rollback: when the call raises,  *)
(* the graph is put back to what the stored document of the topic holds.    *)
save_graph_rolls_back(s, kwargs, update, time) ==
    LET saved == save_knowledge_tree(s.knowledge_trees, UserId, s.topic,
                     nodes_to_dict(s.graph), edges_to_dict(s.graph), kwargs,
                     update, time, s.env.db)
        hit == {i \in DOMAIN s.knowledge_trees :
                   MatchTree(s.knowledge_trees[i], UserId, s.topic)}
    IN  [s EXCEPT !.knowledge_trees = saved.trees, !.exc = saved.exc,
                  !.last.save = IF saved.exc THEN "failed"
                                ELSE IF saved.stored THEN "ok" ELSE "error",
                  !.graph = IF saved.exc /\ hit # {}
                            THEN graph_from_tree(
                                     s.knowledge_trees[CHOOSE i \in hit : TRUE]
                                         .graph_data)
                            ELSE @]

(* Lines 396-410, 643-669 and 738-766: the node map and the edge map of the *)
(* session's graph are handed to save_knowledge_tree with the keyword       *)
(* arguments kwargs; an exception of the call leaves the run.               *)
save_graph(s, kwargs, update, time) ==
    LET saved == save_knowledge_tree(s.knowledge_trees, UserId, s.topic,
                     nodes_to_dict(s.graph), edges_to_dict(s.graph), kwargs,
                     update, time, s.env.db)
    IN  [s EXCEPT !.knowledge_trees = saved.trees, !.exc = saved.exc,
                  !.last.save = IF saved.exc THEN "failed"
                                ELSE IF saved.stored THEN "ok" ELSE "error"]

(* Line 375: st.session_state.graph = create_knowledge_graph(...).  A       *)
(* KeyError of the builder leaves the run before the assignment.            *)
explore_assign_graph(s, r) ==
    IF r.exc THEN [s EXCEPT !.exc = TRUE, !.last.keyerr = TRUE]
    ELSE [s EXCEPT !.graph = r.G, !.uuid_next = r.uuid]

(* Lines 377-410: the bookkeeping of Explore and its save (an insert). *)
explore_finish(s, time) ==
    IF s.exc THEN s
    ELSE save_graph([s EXCEPT !.current_node = s.topic,
                              !.nodes_explored = @ \cup {s.topic},
                              !.exploration_start_time = time,
                              !.expansion_queue = <<s.topic>>],
                    {}, FALSE, time)

(* Lines 361-410: the Explore Topic button.  uuid.uuid4() never repeats a   *)
(* value: the nodes are numbered from the session's counter on.             *)
ExploreSegment(s, ev, time) ==
    IF ~(ev.kind = "explore" /\ Truthy(s.topic)) THEN s
    ELSE explore_finish(
             explore_assign_graph(
                 [s EXCEPT !.last.op = "explore", !.last.arg = s.topic,
                           !.last.ai = AiOutcome(ev.resp)],
                 create_knowledge_graph(explore_topic(s.topic, ev.resp),
                                        s.uuid_next)),
             time)

(* Lines 418-419: the auto-expand step expands the popped label only if it  *)
(* is a node and was not expanded yet.                                      *)
auto_expand_guard(s, node_to_expand) ==
    HasNode(s.graph, node_to_expand) /\ node_to_expand \notin s.subnodes_expanded

(* Lines 413-478: one auto-expand step.  The head of the queue is popped;   *)
(* a label that passes the guard is handed to                               *)
(* explorer.get_related_concepts, which is not a method of AIExplorer, so   *)
(* the call raises AttributeError and the run ends.  A label that does not  *)
(* pass the guard is dropped and the run goes on (st.rerun() is inside the  *)
(* guarded block).                                                          *)
AutoExpandSegment(s) ==
    IF s.exc \/ ~(s.auto_expand /\ GraphTruthy(s.graph) /\ s.expansion_queue # <<>>)
    THEN s
    ELSE LET node_to_expand == Head(s.expansion_queue)
             s1 == [s EXCEPT !.expansion_queue = Tail(@),
                             !.last.popped = node_to_expand]
         IN  IF auto_expand_guard(s1, node_to_expand)
             THEN IF "get_related_concepts" \notin AIExplorerMethods
                  THEN [s1 EXCEPT !.exc = TRUE]
                  ELSE \* a list of concepts has no .get: add_subnodes_to_graph raises
                       [s1 EXCEPT !.exc = TRUE, !.last.ai = "ok"]
             ELSE s1

(* The names of the concepts an answer lists. *)
ReturnedNames(data) ==
    LET list == Get(data, "related_concepts", <<>>)
    IN  {list[i].name : i \in {j \in DOMAIN list : Has(list[j], "name")}}

(* Lines 633-640 and 734-737: the bookkeeping after the graph was updated,  *)
(* without the add to subnodes_expanded.                                    *)
mark_expanded_skips_set(s, node_to_expand) ==
    [s EXCEPT !.nodes_explored = @ \cup {node_to_expand},
              !.current_node = node_to_expand]

(* Lines 633-640 and 734-737: the bookkeeping after the graph was updated.  *)
mark_expanded(s, node_to_expand) ==
    [s EXCEPT !.subnodes_expanded = @ \cup {node_to_expand},
              !.nodes_explored = @ \cup {node_to_expand},
              !.current_node = node_to_expand]

(* Lines 626-630 and 727-731: st.session_state.graph =                      *)
(* add_subnodes_to_graph(...).  The builder updates the graph in place, so  *)
(* the session holds what it built also when a KeyError leaves the run.     *)
expand_assign_graph(s, r) ==
    [s EXCEPT !.graph = r.G, !.uuid_next = r.uuid, !.exc = r.exc,
              !.last.keyerr = r.exc]

(* Lines 633-669 and 734-766: mark the label expanded and save the tree.    *)
(* The save passes tree_id=, a keyword save_knowledge_tree does not         *)
(* declare.                                                                 *)
expand_finish(s, node_to_expand, time) ==
    IF s.exc THEN s
    ELSE save_graph(mark_expanded(s, node_to_expand), {"tree_id", "update"},
                    TRUE, time)

(* Lines 611-669 and 714-766: expand one node of the graph with             *)
(* explore_subtopic, mark it expanded and save the tree.                    *)
expand_node(s, node_to_expand, resp, time) ==
    expand_finish(
        expand_assign_graph(
            [s EXCEPT !.last.ai = AiOutcome(resp),
                      !.last.dup =
                          ReturnedNames(explore_subtopic(s.topic, node_to_expand,
                                                         resp))
                              \cap NodeLabels(s.graph)],
            add_subnodes_to_graph(s.graph, node_to_expand,
                explore_subtopic(s.topic, node_to_expand, resp), s.uuid_next)),
        node_to_expand, time)

(* Lines 609-610: a double click expands a label only if it is a node and   *)
(* was not expanded yet.                                                    *)
double_click_guard(s, node_to_expand) ==
    HasNode(s.graph, node_to_expand) /\ node_to_expand \notin s.subnodes_expanded

(* Lines 594-596: the id parsed from the query parameter selected_node      *)
(* becomes the current node.                                                *)
select_node(s, node, time) == [s EXCEPT !.current_node = node]

(* st.query_params[key] is a str, the text of the parameter.  A text is    *)
(* modelled as the sequence of its characters; the id a JSON object text    *)
(* carries is one element of the sequence.  The page script sets            *)
(* encodeURIComponent(JSON.stringify({id: ...})) (lines 515-576); a URL     *)
(* typed by hand sets any text.                                             *)
EncodedNodeText(n) == <<"%", "7", "B", n, "%", "7", "D">>
NodeText(n) == <<"{", n, "}">>
QueryTexts(n) == {EncodedNodeText(n), NodeText(n), <<"7">>, <<>>}

Digits == {"0", "1", "2", "3", "4", "5", "6", "7", "8", "9"}

(* json.loads(text): [exc, kind, id].  The text of an object parses to the  *)
(* object, a digit to a number, anything else raises JSONDecodeError.       *)
json_loads(text) ==
    IF Len(text) = 3 /\ text[1] = "{" /\ text[3] = "}"
    THEN [exc |-> FALSE, kind |-> "object", id |-> text[2]]
    ELSE IF Len(text) = 1 /\ text[1] \in Digits
    THEN [exc |-> FALSE, kind |-> "number", id |-> NoneVal]
    ELSE [exc |-> TRUE, kind |-> "none", id |-> NoneVal]

(* Lines 593-594 and 606-607: json.loads(query_params[key][0])["id"].       *)
(* Subscript [0] of a str is its first character (IndexError for the empty  *)
(* text); subscript ["id"] of a number is a TypeError.                      *)
param_node_id(text) ==
    IF text = <<>> THEN [exc |-> TRUE, id |-> NoneVal]
    ELSE LET node_data == json_loads(<<text[1]>>)
         IN  IF node_data.exc \/ node_data.kind # "object"
             THEN [exc |-> TRUE, id |-> NoneVal]
             ELSE [exc |-> FALSE, id |-> node_data.id]

(* Lines 589-674: the query parameters selected_node and expand_node.  An   *)
(* exception of a handler is caught by its except clause.                   *)
DisplaySegment(s, ev, time) ==
    IF s.exc \/ ~GraphTruthy(s.graph) THEN s
    ELSE IF ev.kind = "select"
    THEN LET p == param_node_id(ev.text)
             s1 == [s EXCEPT !.last.op = "select", !.last.arg = ev.node,
                             !.last.param = IF p.exc THEN "error" ELSE "read"]
         IN  IF p.exc THEN s1 ELSE select_node(s1, p.id, time)
    ELSE IF ev.kind = "dbl"
    THEN LET p == param_node_id(ev.text)
             s1 == [s EXCEPT !.last.op = "dbl", !.last.arg = ev.node,
                             !.last.param = IF p.exc THEN "error" ELSE "read"]
         IN  IF p.exc THEN s1
             ELSE IF double_click_guard(s1, p.id)
             THEN [expand_node(s1, p.id, ev.resp, time) EXCEPT !.exc = FALSE]
             ELSE s1
    ELSE s

(* Line 786 without its test of time_spent. *)
dwell_passed_without_threshold(s, time_spent) ==
    Cardinality(s.nodes_explored) > 0

(* Line 786: a session is logged after more than 30 seconds of exploration  *)
(* of at least one node.                                                    *)
dwell_passed(s, time_spent) ==
    time_spent > DwellThreshold /\ Cardinality(s.nodes_explored) > 0

(* Line 821 left out: the timer keeps running. *)
reset_timer_skipped(s, time) == s

(* Line 821: the timer is reset when a session was logged. *)
reset_timer(s, time) == [s EXCEPT !.exploration_start_time = time]

(* Lines 780-821: log the learning session. *)
SessionLogSegment(s, time) ==
    IF s.exc \/ s.last.rerun \/ ~GraphTruthy(s.graph) THEN s
    ELSE LET time_spent == time - s.exploration_start_time
         IN  IF ~dwell_passed(s, time_spent)
             THEN s
             ELSE LET tree == get_knowledge_tree(s.knowledge_trees, UserId, s.topic,
                                                 s.env.db, s.env.order)
                      saved == IF Len(tree) > 0
                               THEN [exc |-> FALSE, stored |-> FALSE,
                                     trees |-> s.knowledge_trees,
                                     ret |-> tree[1].id]
                               ELSE save_knowledge_tree(s.knowledge_trees, UserId,
                                        s.topic, nodes_to_dict(s.graph),
                                        edges_to_dict(s.graph), {}, FALSE, time,
                                        s.env.db)
                  IN  reset_timer(
                          [s EXCEPT !.knowledge_trees = saved.trees,
                                    !.learning_sessions =
                                        log_learning_session(@, UserId, s.topic,
                                            saved.ret, s.nodes_explored,
                                            time_spent, time, s.env.db),
                                    !.last.log = IF s.env.db THEN "ok" ELSE "error"],
                          time)

(* Line 713 without its test of subnodes_expanded. *)
expand_button_guard_ignores_expanded(s, node) == TRUE

(* Line 713: the pressed Expand button acts only on a label that was not    *)
(* expanded yet (for an expanded label the button is shown disabled).       *)
expand_button_guard(s, node) == node \notin s.subnodes_expanded

(* Line 768: st.rerun() after an expansion whose save went through ends    *)
(* the run; the run it asks for is a run of its own.                        *)
button_finish(s, time) == IF s.exc THEN s ELSE [s EXCEPT !.last.rerun = TRUE]

(* Lines 677-768: the node details and the Expand button. *)
DetailsSegment(s, ev, time) ==
    IF s.exc \/ ~(GraphTruthy(s.graph) /\ Truthy(s.current_node)
                    /\ HasNode(s.graph, s.current_node))
    THEN s
    ELSE IF ev.kind = "button" /\ expand_button_guard(s, s.current_node)
    THEN button_finish(
             expand_node([s EXCEPT !.last.op = "button",
                                   !.last.arg = s.current_node],
                         s.current_node, ev.resp, time),
             time)
    ELSE s

(* The script for the event ev, the buttons of the sidebar apart.  A run    *)
(* that an exception or st.rerun() ended skips the session log.             *)
Run(s, ev, time) ==
    SessionLogSegment(
        DetailsSegment(
            DisplaySegment(
                AutoExpandSegment(
                    ExploreSegment(
                        TopicInputSegment(
                            LoadCheckSegment(InitSegment(s, time), time), ev),
                        ev, time)),
                ev, time),
            ev, time),
        time)

Commit(s) ==
    /\ topic' = s.topic
    /\ graph' = s.graph
    /\ current_node' = s.current_node
    /\ nodes_explored' = s.nodes_explored
    /\ subnodes_expanded' = s.subnodes_expanded
    /\ auto_expand' = s.auto_expand
    /\ expansion_queue' = s.expansion_queue
    /\ exploration_start_time' = s.exploration_start_time
    /\ knowledge_trees' = s.knowledge_trees
    /\ learning_sessions' = s.learning_sessions
    /\ uuid_next' = s.uuid_next
    /\ load_tree_id' = s.load_tree_id
    /\ load_topic' = s.load_topic
    /\ now' = now
    /\ authenticated' = authenticated

----------------------------------------------------------------------------
(* The state when the visualizer page is first shown to the signed-in user  *)
(* (lines 228-257).                                                         *)
Init ==
    /\ topic = EmptyStr
    /\ graph = EmptyGraph
    /\ current_node = NoneVal
    /\ nodes_explored = {}
    /\ subnodes_expanded = {}
    /\ auto_expand = FALSE
    /\ expansion_queue = <<>>
    /\ exploration_start_time = 0
    /\ now = 0
    /\ knowledge_trees = <<>>
    /\ learning_sessions = <<>>
    /\ uuid_next = 1
    /\ load_tree_id = NoTree
    /\ load_topic = NoneVal
    /\ authenticated = TRUE

(* The user types a topic into the text input (lines 351-358). *)
TypeTopic ==
    \E t \in TopicInputs \cup {EmptyStr}, e \in Envs :
        /\ authenticated
        /\ t # topic
        /\ Commit(Run(SessionIn(e), [kind |-> "type", text |-> t], now))

(* The Explore Topic button. *)
ExploreTopic ==
    /\ authenticated
    /\ Truthy(topic)
    /\ Len(knowledge_trees) < MaxTrees
    /\ uuid_next <= MaxIds
    /\ \E resp \in TopicResponses(topic), e \in Envs :
           Commit(Run(SessionIn(e), [kind |-> "explore", resp |-> resp], now))

(* The Auto-expand toggle of the sidebar (lines 284-288). *)
ToggleAutoExpand ==
    /\ authenticated
    /\ \E e \in Envs :
        Commit(Run([SessionIn(e) EXCEPT !.auto_expand = ~auto_expand,
                                        !.last.op = "toggle"],
                   [kind |-> "none"], now))

(* Lines 295-302: a Recent Topics button sets the load flags and calls      *)
(* st.rerun().  The buttons are those of the first five documents find      *)
(* lists.                                                                   *)
history_button(s, tree) ==
    [s EXCEPT !.load_tree_id = tree.id, !.load_topic = tree.topic,
              !.last.op = "open", !.last.arg = tree.topic]

RecentTrees(s) ==
    LET listed == get_knowledge_tree(s.knowledge_trees, UserId, NoneVal,
                                     s.env.db, s.env.order)
    IN  SubSeq(listed, 1, Min(5, Len(listed)))

(* A Recent Topics button of the sidebar: the run sets the load flags and   *)
(* ends at st.rerun() (line 302), before the load check.  The run that      *)
(* st.rerun() asks for is a run of its own (Rerun, or the run of an event   *)
(* that arrived meanwhile).                                                 *)
OpenHistory ==
    /\ authenticated
    /\ \E e \in Envs :
           \E i \in DOMAIN RecentTrees(SessionIn(e)) :
               Commit(history_button(InitSegment(SessionIn(e), now),
                                     RecentTrees(SessionIn(e))[i]))

(* MongoDBConnection.get_learning_history: the records of the user, the     *)
(* latest first, limit of them at most; [] when the call fails.             *)
get_learning_history(sessions, user_id, limit, ok) ==
    IF ~ok THEN <<>>
    ELSE LET own == SelectSeq(sessions, LAMBDA r : r.user_id = user_id)
             latest_first == [i \in 1..Len(own) |-> own[Len(own) + 1 - i]]
         IN  SubSeq(latest_first, 1, Min(limit, Len(latest_first)))

(* src/history.py, lines 333-338 and 364-368: "Continue exploring" on a     *)
(* logged session sets the load flags from the record, switches to the      *)
(* visualizer page and calls st.rerun().                                    *)
ContinueExploring ==
    /\ authenticated
    /\ \E e \in Envs :
           \E i \in DOMAIN get_learning_history(learning_sessions, UserId, 100, e.db) :
               LET session_row == get_learning_history(learning_sessions, UserId,
                                                       100, e.db)[i]
               IN  /\ load_tree_id' = session_row.tree_id
                   /\ load_topic' = session_row.topic
    /\ UNCHANGED <<topic, graph, current_node, nodes_explored, subnodes_expanded,
                   auto_expand, expansion_queue, exploration_start_time, now,
                   knowledge_trees, learning_sessions, uuid_next, authenticated>>

(* A run that carries the query parameter selected_node. *)
SelectNode ==
    /\ authenticated
    /\ GraphTruthy(graph)
    /\ \E n \in NodeLabels(graph), e \in Envs :
           \E text \in QueryTexts(n) :
               Commit(Run(SessionIn(e),
                          [kind |-> "select", node |-> n, text |-> text], now))

(* A run that carries the query parameter expand_node (double click). *)
(* The AI answers only when the handler gets as far as asking it.           *)
DoubleClickExpand ==
    /\ authenticated
    /\ GraphTruthy(graph)
    /\ \E n \in NodeLabels(graph), e \in Envs :
           \E text \in QueryTexts(n) :
               IF param_node_id(text).exc
               THEN Commit(Run(SessionIn(e),
                               [kind |-> "dbl", node |-> n, text |-> text], now))
               ELSE \E resp \in SubtopicResponses :
                        Commit(Run(SessionIn(e),
                                   [kind |-> "dbl", node |-> n, text |-> text,
                                    resp |-> resp], now))

(* The enabled "Expand this concept" button of the node details. *)
ExpandButton ==
    /\ authenticated
    /\ GraphTruthy(graph)
    /\ Truthy(current_node)
    /\ HasNode(graph, current_node)
    /\ current_node \notin subnodes_expanded
    /\ \E resp \in SubtopicResponses, e \in Envs :
           Commit(Run(SessionIn(e), [kind |-> "button", resp |-> resp], now))

(* Any other widget event: the script runs with no button pressed. *)
Rerun ==
    /\ authenticated
    /\ \E e \in Envs :
           Commit(Run([SessionIn(e) EXCEPT !.last.op = "rerun"], [kind |-> "none"],
                      now))

(* src/app.py, lines 162-170: the Logout button of the sidebar deletes      *)
(* every key of st.session_state but current_page and sets authenticated to *)
(* False.  The collections keep their documents.                            *)
Logout ==
    /\ authenticated
    /\ topic' = EmptyStr
    /\ graph' = EmptyGraph
    /\ current_node' = NoneVal
    /\ nodes_explored' = {}
    /\ subnodes_expanded' = {}
    /\ auto_expand' = FALSE
    /\ expansion_queue' = <<>>
    /\ exploration_start_time' = NoTime
    /\ load_tree_id' = NoTree
    /\ load_topic' = NoneVal
    /\ authenticated' = FALSE
    /\ UNCHANGED <<now, knowledge_trees, learning_sessions, uuid_next>>

(* src/auth.py, lines 172-175 and 254-257: the user signs in again. *)
SignIn ==
    /\ ~authenticated
    /\ authenticated' = TRUE
    /\ UNCHANGED <<topic, graph, current_node, nodes_explored, subnodes_expanded,
                   auto_expand, expansion_queue, exploration_start_time, now,
                   knowledge_trees, learning_sessions, uuid_next, load_tree_id,
                   load_topic>>

(* Time passes between two runs. *)
Tick ==
    \E dt \in TickSteps :
        /\ now + dt <= MaxTime
        /\ now' = now + dt
        /\ UNCHANGED <<topic, graph, current_node, nodes_explored,
                       subnodes_expanded, auto_expand, expansion_queue,
                       exploration_start_time, knowledge_trees,
                       learning_sessions, uuid_next, load_tree_id, load_topic,
                       authenticated>>

Next ==
    \/ TypeTopic
    \/ ExploreTopic
    \/ ExpandButton
    \/ DoubleClickExpand
    \/ SelectNode
    \/ ToggleAutoExpand
    \/ OpenHistory
    \/ ContinueExploring
    \/ Rerun
    \/ Logout
    \/ SignIn
    \/ Tick

Spec == Init /\ [][Next]_vars

----------------------------------------------------------------------------
(* The properties.  A property about one request is stated over every       *)
(* reachable state and every request that can arrive in it: the run of      *)
(* show_visualizer for that request is computed from the state and its      *)
(* result compared with the state.                                          *)

(* The expansion requests of one run: a double click on any label, with    *)
(* the AI's answer where the handler gets as far as asking for it, or the   *)
(* Expand button of the node shown in the details (current_node).           *)
DoubleClicks ==
    UNION {IF param_node_id(text).exc
           THEN {[kind |-> "dbl", node |-> n, text |-> text]}
           ELSE {[kind |-> "dbl", node |-> n, text |-> text, resp |-> resp] :
                    resp \in SubtopicResponses} :
           <<n, text>> \in UNION {{<<l, x>> : x \in QueryTexts(l)} : l \in Labels}}

Requests ==
    DoubleClicks
    \cup {[kind |-> "button", node |-> current_node, resp |-> resp] :
        resp \in SubtopicResponses}

(* The run of the script for event ev at time t while the database behaves  *)
(* as e says.                                                               *)
RunIn(e, ev, t) == Run(SessionIn(e), ev, t)

(* A stored tree waits to be loaded: the next run starts by loading it. *)
PendingLoad == load_tree_id # NoTree /\ Truthy(load_topic)

(* The run with auto-expand switched on and no button pressed. *)
AutoRun == Run([Session EXCEPT !.auto_expand = TRUE], [kind |-> "none"], now)

SameCounts(G1, G2) == NumNodes(G1) = NumNodes(G2) /\ NumEdges(G1) = NumEdges(G2)

(* C1: a request (double click, Expand button, auto-expand step) to expand  *)
(* a label that is in subnodes_expanded makes no AI call, whatever the      *)
(* database does, and leaves the number of nodes and the number of edges of *)
(* the graph as they were (in a run that has no stored tree to load first). *)
C1_ExpandedLabelIsLeftAlone ==
    /\ \A ev \in Requests :
           ev.node \in subnodes_expanded =>
               \A e \in Envs :
                   /\ RunIn(e, ev, now).last.ai = "none"
                   /\ ~PendingLoad => SameCounts(RunIn(e, ev, now).graph, graph)
    /\ (~PendingLoad /\ GraphTruthy(graph) /\ expansion_queue # <<>>
            /\ Head(expansion_queue) \in subnodes_expanded) =>
           /\ AutoRun.last.popped = Head(expansion_queue)
           /\ AutoRun.last.ai = "none"
           /\ SameCounts(AutoRun.graph, graph)

(* A graph with an expanded node that is shown in the details (the button   *)
(* case), is a node (the double-click case) and heads the queue (the        *)
(* auto-expand case).                                                       *)
C1_Witness ==
    /\ ~PendingLoad
    /\ NumNodes(graph) > 1
    /\ HasNode(graph, current_node)
    /\ current_node \in subnodes_expanded
    /\ expansion_queue # <<>>
    /\ Head(expansion_queue) = current_node
    /\ AutoRun.expansion_queue = <<>>

(* A run expands (calls the AI for) a label only if the label is not in     *)
(* subnodes_expanded, and when the expansion goes through the label is in   *)
(* subnodes_expanded.                                                       *)
ExpandsOnlyUnexpanded ==
    /\ \A ev \in Requests :
           LET r == Run(Session, ev, now)
           IN  r.last.ai # "none" =>
                   /\ r.last.arg = ev.node
                   /\ ev.node \notin subnodes_expanded
                   /\ (~r.last.keyerr => ev.node \in r.subnodes_expanded)
    /\ AutoRun.last.ai = "none"

(* C2: no node is expanded twice.  A run expands a label only if the label  *)
(* is not in subnodes_expanded; when the expansion goes through, the label  *)
(* is in subnodes_expanded; and no step takes a label out of                *)
(* subnodes_expanded while the session keeps its graph (the Logout button   *)
(* empties the set and discards the graph with it).                         *)
C2_NoNodeExpandedTwice ==
    /\ []ExpandsOnlyUnexpanded
    /\ [][\/ subnodes_expanded \subseteq subnodes_expanded'
          \/ (graph' = EmptyGraph /\ ~authenticated')]_vars

(* A node was expanded: it is in subnodes_expanded, one of its children is  *)
(* in the graph, and it is the node whose Expand button is shown.           *)
C2_Witness ==
    \E i \in DOMAIN graph.nodes :
        /\ graph.nodes[i].attrs.type = "sub-concept"
        /\ graph.nodes[i].attrs.parent \in subnodes_expanded
        /\ graph.nodes[i].attrs.parent = current_node

(* C3: when the AI call of an expansion fails (explore_subtopic returns its *)
(* fallback object with an empty concept list), the label is not added to   *)
(* subnodes_expanded.                                                       *)
C3_FailedExpansionIsNotMarked ==
    \A ev \in Requests :
        LET r == Run(Session, ev, now)
        IN  r.last.ai = "failed" => ev.node \notin r.subnodes_expanded

(* C4: an expansion whose AI call fails, or whose answer holds a record     *)
(* that cannot be used, leaves the nodes and the edges of the graph exactly *)
(* as they were.                                                            *)
C4_ExpansionIsAtomic ==
    \A ev \in Requests :
        LET r == Run(Session, ev, now)
        IN  (r.last.ai = "failed" \/ r.last.keyerr) => r.graph = graph

NodesLabelled(G, l) == {i \in DOMAIN G.nodes : G.nodes[i].label = l}

(* C5: when an expansion of label L returns the name of another node of the *)
(* graph, no node is created for it and L is linked to that node            *)
(* afterwards.                                                              *)
C5_ExistingNameIsCrossLinked ==
    \A ev \in Requests :
        LET r == Run(Session, ev, now)
        IN  (r.last.ai = "ok" /\ ~r.last.keyerr) =>
                \A d \in r.last.dup \ {ev.node} :
                    /\ Cardinality(NodesLabelled(r.graph, d)) = 1
                    /\ HasEdge(r.graph, ev.node, d)

(* C6: the graph holds one node per label: no two nodes carry the same      *)
(* label, whatever was explored, expanded or reopened.                      *)
C6_OneNodePerLabel ==
    \A i, j \in DOMAIN graph.nodes :
        graph.nodes[i].label = graph.nodes[j].label => i = j

(* The label of the root was added a second time, as a concept, and the     *)
(* graph has other nodes too.                                               *)
C6_Witness ==
    /\ NumNodes(graph) > 1
    /\ graph.nodes[1].attrs.type = "concept"
    /\ graph.nodes[1].attrs.parent = graph.nodes[1].label

(* C7: every node with a parent attribute has its parent in the graph and   *)
(* is one level below it, and the root (the node the graph was started      *)
(* with) has level 0.                                                       *)
C7_LevelsFollowParents ==
    /\ GraphTruthy(graph) => Get(graph.nodes[1].attrs, "level", 0) = 0
    /\ \A i \in DOMAIN graph.nodes :
           LET attrs == graph.nodes[i].attrs
           IN  Has(attrs, "parent") =>
                   /\ HasNode(graph, attrs.parent)
                   /\ attrs.level = NodeAttrs(graph, attrs.parent).level + 1

(* The answers to Explore that name a topic and list related concepts, all  *)
(* complete, and no subtopics; the fallback object of a failed call lists   *)
(* no concept.                                                              *)
PlainAnswers ==
    {resp \in TopicResponses(topic) :
        LET data == explore_topic(topic, resp)
        IN  /\ Has(data, "topic") /\ Has(data, "summary")
            /\ Has(data, "related_concepts")
            /\ Get(data, "subtopics", <<>>) = <<>>
            /\ \A i \in DOMAIN data.related_concepts :
                   /\ Has(data.related_concepts[i], "name")
                   /\ Has(data.related_concepts[i], "summary")
                   /\ Has(data.related_concepts[i], "relation")}

ConceptsOf(resp) == explore_topic(topic, resp).related_concepts

(* The root label of the graph an answer gives: the topic the answer names. *)
RootOf(resp) == explore_topic(topic, resp).topic

Explored(resp) == Run(Session, [kind |-> "explore", resp |-> resp], now)

(* C8 as stated: exploring a topic whose answer lists k related concepts    *)
(* and no subtopics gives a graph of k+1 nodes and k edges, the root at     *)
(* level 0 and every concept at level 1.                                    *)
C8_ExploreBuildsStar ==
    Truthy(topic) =>
        \A resp \in PlainAnswers :
            LET G == Explored(resp).graph
                k == Len(ConceptsOf(resp))
            IN  /\ NumNodes(G) = k + 1
                /\ NumEdges(G) = k
                /\ NodeAttrs(G, RootOf(resp)).level = 0
                /\ \A n \in ReturnedNames(explore_topic(topic, resp)) :
                       NodeAttrs(G, n).level = 1

(* C8 amended: exploring a topic whose answer lists related concepts and no *)
(* subtopics gives a graph with one node per distinct label among the root  *)
(* and the concept names, and one edge from the root to every distinct      *)
(* concept name; every listed concept is at level 1, and the root is at     *)
(* level 0 unless it is itself listed as a concept.                         *)
C8_ExploreBuildsStarOfDistinctNames ==
    (Truthy(topic) /\ ~PendingLoad) =>
        \A resp \in PlainAnswers :
            LET G == Explored(resp).graph
                root == RootOf(resp)
                names == ReturnedNames(explore_topic(topic, resp))
            IN  /\ NodeLabels(G) = {root} \cup names
                /\ NumNodes(G) = Cardinality({root} \cup names)
                /\ NumEdges(G) = Cardinality(names)
                /\ \A n \in names : HasEdge(G, root, n)
                /\ \A n \in names : NodeAttrs(G, n).level = 1
                /\ NodeAttrs(G, root).level = IF root \in names THEN 1 ELSE 0

(* The graph of the session is what Explore built from an answer that       *)
(* lists the same name twice, and its tree is stored.                       *)
C8_Witness ==
    /\ Truthy(topic)
    /\ knowledge_trees # <<>>
    /\ \E resp \in PlainAnswers :
           /\ Len(ConceptsOf(resp)) = 2
           /\ ConceptsOf(resp)[1].name = ConceptsOf(resp)[2].name
           /\ create_knowledge_graph(explore_topic(topic, resp), 1).G = graph

NoUnderscore(G) == \A l \in NodeLabels(G) : Len(l) = 1

EdgeSet(G) ==
    {[ends |-> {G.edges[i].u, G.edges[i].v}, attrs |-> G.edges[i].attrs] :
        i \in DOMAIN G.edges}

Isomorphic(G1, G2) ==
    /\ NodeLabels(G1) = NodeLabels(G2)
    /\ \A l \in NodeLabels(G1) : NodeAttrs(G1, l) = NodeAttrs(G2, l)
    /\ EdgeSet(G1) = EdgeSet(G2)

(* The run that reopens stored tree number i from the Recent Topics list. *)
Reopened(i) ==
    Run(history_button(Session, knowledge_trees[i]), [kind |-> "none"], now)

(* C9: a stored tree that holds the node map and the edge map of the        *)
(* session's graph, whose labels have no underscore, reopens as a graph     *)
(* with the same labels, the same attributes and the same edges.            *)
C9_SaveThenReopenIsIsomorphic ==
    \A i \in DOMAIN knowledge_trees :
        (/\ knowledge_trees[i].graph_data.nodes = nodes_to_dict(graph)
         /\ knowledge_trees[i].graph_data.edges = edges_to_dict(graph)
         /\ NoUnderscore(graph))
            => Isomorphic(Reopened(i).graph, graph)

OnePerUserTopic(trees) ==
    \A i, j \in DOMAIN trees :
        (trees[i].user_id = trees[j].user_id /\ trees[i].topic = trees[j].topic)
            => i = j

(* C10: storage holds at most one tree per (user_id, topic): now, after the *)
(* next Explore, after the next expansion and after the next session log.   *)
C10_OneTreePerUserTopic ==
    /\ OnePerUserTopic(knowledge_trees)
    /\ \A resp \in TopicResponses(topic) :
           OnePerUserTopic(Explored(resp).knowledge_trees)
    /\ \A ev \in Requests :
           OnePerUserTopic(Run(Session, ev, now).knowledge_trees)
    /\ OnePerUserTopic(Run(Session, [kind |-> "none"], now).knowledge_trees)

----------------------------------------------------------------------------
(* The stored documents of one (user_id, topic) pair, and the document an   *)
(* update save of the graph G leaves for the pair.                          *)
TreesOf(trees, user_id, t) ==
    {i \in DOMAIN trees : MatchTree(trees[i], user_id, t)}

StoredGraph(G) == [nodes |-> nodes_to_dict(G), edges |-> edges_to_dict(G)]

(* C11: the save with update=True that follows an expansion, for a          *)
(* (user_id, topic) pair that has a stored document, leaves that document   *)
(* holding the nodes and the edges of the whole current graph and adds no   *)
(* second document for the pair.                                            *)
C11_UpdateSaveReplacesTree ==
    \A ev \in Requests :
        LET r == Run(Session, ev, now)
        IN  (r.last.save # "none" /\ TreesOf(knowledge_trees, UserId, topic) # {}) =>
                /\ TreesOf(r.knowledge_trees, UserId, topic)
                       = TreesOf(knowledge_trees, UserId, topic)
                /\ \A i \in TreesOf(knowledge_trees, UserId, topic) :
                       r.knowledge_trees[i].graph_data = StoredGraph(r.graph)

Range(seq) == {seq[i] : i \in DOMAIN seq}

(* The queue a run starts its expansion with: the auto-expand step of the   *)
(* same run, if it took a label, has removed the head.                      *)
QueueBefore(r) ==
    IF r.last.popped # NoneVal THEN Tail(expansion_queue) ELSE expansion_queue

(* The labels an expansion created that were neither queued nor expanded. *)
NewChildren(r) ==
    (NodeLabels(r.graph) \ NodeLabels(graph))
        \ (Range(QueueBefore(r)) \cup subnodes_expanded)

(* C12: after an expansion, every label the expansion created is at the     *)
(* tail of expansion_queue, behind what the queue held, unless it was in    *)
(* the queue or in subnodes_expanded already.                               *)
C12_NewChildrenAreQueued ==
    \A ev \in Requests :
        LET r == Run(Session, ev, now)
            q == r.expansion_queue
            n == Len(QueueBefore(r))
        IN  r.last.ai = "ok" =>
                /\ Len(q) = n + Cardinality(NewChildren(r))
                /\ SubSeq(q, 1, n) = QueueBefore(r)
                /\ {q[i] : i \in (n + 1)..Len(q)} = NewChildren(r)

(* C14: while auto-expand is on and the queue is not empty, the run takes   *)
(* the head of the queue and ends its step by restarting the script         *)
(* (st.rerun()), not by an exception, so that the next step follows without *)
(* a user action.                                                           *)
C14_AutoExpandKeepsStepping ==
    (GraphTruthy(graph) /\ expansion_queue # <<>>) =>
        /\ AutoRun.last.popped = Head(expansion_queue)
        /\ ~AutoRun.exc

(* C15: an expansion leaves every node that was in the graph before it as   *)
(* it was: the same label in the same place with the same attributes        *)
(* (level, parent, node_id and the others).                                 *)
C15_ExpansionKeepsExistingNodes ==
    \A ev \in Requests :
        LET r == Run(Session, ev, now)
        IN  r.last.ai # "none" =>
                \A i \in DOMAIN graph.nodes :
                    /\ i \in DOMAIN r.graph.nodes
                    /\ r.graph.nodes[i] = graph.nodes[i]

(* An expanded graph: the root, a concept of the root, and a child an       *)
(* expansion of one of them created.                                        *)
C15_Witness ==
    /\ NumNodes(graph) >= 3
    /\ graph.nodes[1].attrs.type = "main"
    /\ \E i, j \in DOMAIN graph.nodes :
           /\ graph.nodes[i].attrs.type = "concept"
           /\ graph.nodes[j].attrs.type = "sub-concept"
           /\ graph.nodes[j].attrs.parent \in subnodes_expanded

(* C16: when the save after an expansion fails, the graph of the session    *)
(* is the graph add_subnodes_to_graph built: it holds the graph from before *)
(* the expansion and every node and edge the expansion added.               *)
C16_FailedSaveKeepsGraph ==
    \A ev \in Requests :
        LET r == Run(Session, ev, now)
        IN  r.last.save = "failed" =>
                r.graph = add_subnodes_to_graph(graph, ev.node,
                              explore_subtopic(topic, ev.node, ev.resp),
                              uuid_next).G

(* The graph holds a child of an expanded node that the stored tree of the  *)
(* topic does not hold: the save after the expansion failed.                *)
C16_Witness ==
    \E i \in TreesOf(knowledge_trees, UserId, topic) :
        \E j \in DOMAIN graph.nodes :
            /\ graph.nodes[j].attrs.type = "sub-concept"
            /\ graph.nodes[j].attrs.parent \in subnodes_expanded
            /\ graph.nodes[j].label
                   \notin DictKeys(knowledge_trees[i].graph_data.nodes)

(* A second session of the same user on the same topic: the session state   *)
(* as lines 228-257 set it up, the topic typed, and the same storage.       *)
SecondSession ==
    [Session EXCEPT !.graph = EmptyGraph, !.current_node = NoneVal,
                    !.nodes_explored = {}, !.subnodes_expanded = {},
                    !.auto_expand = FALSE, !.expansion_queue = <<>>,
                    !.exploration_start_time = now,
                    !.load_tree_id = NoTree, !.load_topic = NoneVal]

(* C17: when a second session of the user saves the topic after this        *)
(* session did, the later write wins: what is stored for the (user_id,      *)
(* topic) pair is the nodes and the edges of the graph of the session that  *)
(* saved last, and nothing of the other graph.                              *)
C17_LaterWriteWins ==
    (Truthy(topic) /\ TreesOf(knowledge_trees, UserId, topic) # {}) =>
        \A resp \in TopicResponses(topic) :
            LET r == Run(SecondSession, [kind |-> "explore", resp |-> resp], now)
            IN  r.last.save = "ok" =>
                    \A i \in TreesOf(r.knowledge_trees, UserId, topic) :
                        r.knowledge_trees[i].graph_data = StoredGraph(r.graph)

(* A stored tree with its node map and edge map at the top level of the     *)
(* document, where the loader reads them, and without the entry of node n:  *)
(* the edges of n name an endpoint that is no key of the node map.          *)
FlatWithout(tree, n) ==
    LET Keep(e) == e.key # n
    IN  [topic |-> tree.topic,
         nodes |-> SelectSeq(tree.graph_data.nodes, Keep),
         edges |-> tree.graph_data.edges]

(* C18: reopening a stored tree skips, without an error, every edge entry   *)
(* whose endpoints are not both keys of the stored node map: the nodes of   *)
(* the graph that is rebuilt are the keys of the node map.                  *)
C18_DanglingEdgesAreSkipped ==
    \A i \in DOMAIN knowledge_trees :
        \A n \in DictKeys(knowledge_trees[i].graph_data.nodes) :
            LET doc == FlatWithout(knowledge_trees[i], n)
                g == nodes_edges_to_networkx(doc.nodes, doc.edges)
            IN  /\ NodeLabels(graph_from_tree(doc)) = DictKeys(doc.nodes)
                /\ ~g.exc
                /\ NodeLabels(g.G) = DictKeys(doc.nodes)

(* The run of the script at time t with no button pressed. *)
RunAt(s, t) == Run(s, [kind |-> "none"], t)

(* The times of a later run: from now up to just past the threshold. *)
LaterTimes == now..(now + DwellThreshold + 1)

(* C19: a learning session is logged only after the dwell threshold: every  *)
(* record in storage, now and after a run at any later time, has time_spent *)
(* of at least 30 seconds, and a run less than 30 seconds after the timer   *)
(* was started logs no record, whatever the database does.                  *)
C19_LoggedOnlyAfterDwell ==
    \A t \in LaterTimes :
        \A e \in Envs :
            /\ (t - exploration_start_time < DwellThreshold)
                   => RunAt(SessionIn(e), t).learning_sessions = learning_sessions
            /\ \A i \in DOMAIN RunAt(SessionIn(e), t).learning_sessions :
                   RunAt(SessionIn(e), t).learning_sessions[i].time_spent
                       >= DwellThreshold

(* A record was logged by the run of this moment, and the graph is there    *)
(* for the next run to log another one.                                     *)
C19_Witness ==
    /\ GraphTruthy(graph)
    /\ \E i \in DOMAIN learning_sessions :
           /\ learning_sessions[i].timestamp = now
           /\ learning_sessions[i].time_spent > DwellThreshold

(* The session as a run left it, ready for the next run. *)
Continue(r) == [r EXCEPT !.last = NoLast, !.exc = FALSE]

(* The waits between two runs that are long enough for a record. *)
LongDwells == {DwellThreshold + 1, 2 * DwellThreshold}

(* The last record of the collection of run r. *)
LastRecord(r) == r.learning_sessions[Len(r.learning_sessions)]

(* Run r logged one record more than the collection held before it. *)
Logged(r, before) == Len(r.learning_sessions) = Len(before) + 1

(* C20 as stated: of two records logged one after the other in the same     *)
(* session, the later one reports a time_spent that includes the            *)
(* time_spent the earlier one reported.                                     *)
C20_TimeSpentIsCumulative ==
    \A d1, d2 \in LongDwells :
        LET r1 == RunAt(Session, now + d1)
            r2 == RunAt(Continue(r1), now + d1 + d2)
        IN  (Logged(r1, learning_sessions) /\ Logged(r2, r1.learning_sessions)) =>
                LastRecord(r2).time_spent >= LastRecord(r1).time_spent + d2

(* The session as run r left it, in a next run during which the database    *)
(* behaves as e says.                                                       *)
ContinueIn(r, e) == [Continue(r) EXCEPT !.env = e]

(* C20 amended: recording a session resets the timer: of two records logged *)
(* one after the other in the same session, the later one reports the time  *)
(* since the earlier one was logged, and nothing of the time the earlier    *)
(* one reported.  The later run restarts the timer again, also when the     *)
(* database is down and its record is lost.                                 *)
C20_TimeSpentSinceLastRecord ==
    \A d1, d2 \in LongDwells :
        \A e \in Envs :
            LET r1 == RunAt(Session, now + d1)
                r2 == RunAt(ContinueIn(r1, e), now + d1 + d2)
            IN  Logged(r1, learning_sessions) =>
                    /\ r1.exploration_start_time = now + d1
                    /\ r2.exploration_start_time = now + d1 + d2
                    /\ e.db =>
                           /\ Logged(r2, r1.learning_sessions)
                           /\ LastRecord(r2).time_spent = d2
                           /\ LastRecord(r2).timestamp
                                  = LastRecord(r1).timestamp + d2

(* A record was logged and the timer restarted with it; the session goes    *)
(* on, and its next record is logged when the threshold has passed again.   *)
C20_Witness ==
    /\ GraphTruthy(graph)
    /\ learning_sessions # <<>>
    /\ learning_sessions[Len(learning_sessions)].timestamp = exploration_start_time
    /\ learning_sessions[Len(learning_sessions)].topic = topic
    /\ Logged(RunAt(Session, now + DwellThreshold + 1), learning_sessions)

----------------------------------------------------------------------------
(* The time accounting of the session.  The session keeps one timer,        *)
(* exploration_start_time, and one active node, current_node; it keeps no   *)
(* total per label.  TimeOn is the time that accounting holds for a label   *)
(* at time t: the reading of the timer for the active node, nothing for any *)
(* other label.                                                             *)
TimeOn(s, label, t) ==
    IF s.current_node = label THEN t - s.exploration_start_time ELSE 0

(* The run that carries the selection of node n, at time t. *)
SelectAt(s, n, t) ==
    Run(s, [kind |-> "select", node |-> n, text |-> EncodedNodeText(n)], t)

(* Short stays on a node, in seconds. *)
ShortDwells == {5, 10}

(* C21: the time held for a label is the time during which that label was  *)
(* the active node.  When the page activates another node n (the selection  *)
(* of n, d1 seconds from now), n is the active node from then on, and the   *)
(* time held for n after d2 more seconds is those d2 seconds.               *)
C21_ElapsedIsTimeActive ==
    (GraphTruthy(graph) /\ Truthy(current_node) /\ ~PendingLoad) =>
        \A n \in NodeLabels(graph) \ {current_node} :
            \A d1, d2 \in ShortDwells :
                LET r == SelectAt(Session, n, now + d1)
                IN  /\ r.current_node = n
                    /\ TimeOn(r, n, now + d1 + d2) = d2

RECURSIVE SumTimeSpent(_)
SumTimeSpent(records) ==
    IF records = <<>> THEN 0
    ELSE Head(records).time_spent + SumTimeSpent(Tail(records))

(* The total time the accounting of session s reports at time t: the time   *)
(* of the records it logged and the reading of its timer.                   *)
TotalElapsed(s, t) ==
    SumTimeSpent(s.learning_sessions) + (t - s.exploration_start_time)

(* The times of a later run that matter to the session log: at once, at    *)
(* the threshold, and just past it.                                         *)
DwellEdges == {now, now + DwellThreshold, now + DwellThreshold + 1}

(* C22: the total time the accounting reports never decreases as time       *)
(* advances within an exploration (the timer is running and no stored tree  *)
(* waits to be loaded), whenever the script runs and whatever node a        *)
(* selection or an expansion asks to make the active node.                  *)
C22_TotalElapsedNeverDecreases ==
    (~PendingLoad /\ exploration_start_time # NoTime) =>
        /\ \A t \in DwellEdges :
               \A e \in Envs :
                   /\ TotalElapsed(RunAt(SessionIn(e), t), t)
                          >= TotalElapsed(Session, now)
                   /\ \A n \in NodeLabels(graph) :
                          TotalElapsed(SelectAt(SessionIn(e), n, t), t)
                              >= TotalElapsed(Session, now)
        /\ \A ev \in Requests :
               TotalElapsed(Run(Session, ev, now), now)
                   >= TotalElapsed(Session, now)

----------------------------------------------------------------------------
(* GraphStore.remove_node of the design (spec section 4.1); the source has  *)
(* no removal of a node, so the operation is taken from the spec and        *)
(* applied to the graphs the program builds.                                *)

(* children(label): the nodes whose parent is label. *)
children(G, label) ==
    {n \in NodeLabels(G) : /\ Has(NodeAttrs(G, n), "parent")
                           /\ NodeAttrs(G, n).parent = label}

(* The labels a removal of the labels S takes away: S, the children of S,   *)
(* their children, and so on.                                               *)
RECURSIVE Cascade(_, _)
Cascade(G, S) ==
    LET more == UNION {children(G, l) : l \in S}
    IN  IF more \subseteq S THEN S ELSE Cascade(G, S \cup more)

(* remove_node without the cascade: the node and its edges only. *)
remove_node_keeps_descendants(G, label) ==
    IF ~HasNode(G, label) THEN G
    ELSE [nodes |-> SelectSeq(G.nodes, LAMBDA n : n.label # label),
          edges |-> SelectSeq(G.edges, LAMBDA e : e.u # label /\ e.v # label)]

(* remove_node(label): removes the node and, recursively, all descendants   *)
(* whose parent chain leads to it, and the edges incident to a removed      *)
(* node; a no-op if the label is absent.                                    *)
remove_node(G, label) ==
    IF ~HasNode(G, label) THEN G
    ELSE LET gone == Cascade(G, {label})
         IN  [nodes |-> SelectSeq(G.nodes, LAMBDA n : n.label \notin gone),
              edges |-> SelectSeq(G.edges,
                                  LAMBDA e : e.u \notin gone /\ e.v \notin gone)]

(* The parent chain of node n of G reaches label in at most k steps. *)
RECURSIVE ChainLeadsTo(_, _, _, _)
ChainLeadsTo(G, n, label, k) ==
    /\ k > 0
    /\ HasNode(G, n)
    /\ Has(NodeAttrs(G, n), "parent")
    /\ \/ NodeAttrs(G, n).parent = label
       \/ ChainLeadsTo(G, NodeAttrs(G, n).parent, label, k - 1)

(* The descendants of label: the other nodes whose parent chain leads to it. *)
Descendants(G, label) ==
    {n \in NodeLabels(G) \ {label} : ChainLeadsTo(G, n, label, NumNodes(G))}

(* The nodes of G in their order, those labelled in S left out. *)
NodesWithout(G, S) == SelectSeq(G.nodes, LAMBDA n : n.label \notin S)

(* A concept name that is no node of any graph of the model. *)
FreshName == <<"N">>

(* C23: remove_node on a node of the graph removes that node and every      *)
(* descendant reachable through parent links, and every edge incident to a  *)
(* removed node, and nothing else: the node count drops by 1 plus the       *)
(* number of descendants.  remove_node on a label that is no node leaves    *)
(* the graph as it is.                                                      *)
C23_RemoveNodeCascades ==
    \A label \in Labels \cup {FreshName} :
        LET R == remove_node(graph, label)
            gone == {label} \cup Descendants(graph, label)
        IN  IF ~HasNode(graph, label)
            THEN R = graph
            ELSE /\ R.nodes = NodesWithout(graph, gone)
                 /\ NumNodes(R) = NumNodes(graph)
                                      - (1 + Cardinality(Descendants(graph, label)))
                 /\ \A i \in DOMAIN R.edges :
                        R.edges[i].u \notin gone /\ R.edges[i].v \notin gone
                 /\ \A i \in DOMAIN graph.edges :
                        (graph.edges[i].u \notin gone /\ graph.edges[i].v \notin gone)
                            => \E j \in DOMAIN R.edges : R.edges[j] = graph.edges[i]

(* The graph has a node with two levels of descendants (a child and a child *)
(* of that child), and removing it takes the three nodes and their edges    *)
(* away.                                                                    *)
C23_Witness ==
    \E label \in NodeLabels(graph) :
        \E c \in children(graph, label) \ {label} :
            \E g \in children(graph, c) \ {label, c} :
                /\ HasEdge(graph, label, c)
                /\ HasEdge(graph, c, g)
                /\ NumNodes(remove_node(graph, label)) = NumNodes(graph) - 3
                /\ ~HasEdge(remove_node(graph, label), c, g)
                /\ remove_node(graph, FreshName) = graph

----------------------------------------------------------------------------
(* The colour at 0-based index i of the palette. *)
PaletteAt(i) == colors[i + 1]

(* Graph G with node n lying at level l, as it does after a chain of l      *)
(* expansions from the root.                                                *)
AtLevel(G, n, l) ==
    [G EXCEPT !.nodes[NodeIndex(G, n)].attrs = [level |-> l] @@ @]

(* C24: a node created by expansion at level n >= 1 has the colour at       *)
(* index n mod 5 of the palette: every sub-concept node of the session's    *)
(* graph has it, and so has the node that expanding a node at any level up  *)
(* to MaxLevel creates.                                                     *)
C24_ColourCyclesWithLevel ==
    /\ \A i \in DOMAIN graph.nodes :
           LET a == graph.nodes[i].attrs
           IN  Get(a, "type", "") = "sub-concept" =>
                   /\ a.level >= 1
                   /\ a.color = PaletteAt(a.level % 5)
    /\ \A p \in NodeLabels(graph) :
           \A l \in 0..MaxLevel :
               LET r == add_subnodes_to_graph(AtLevel(graph, p, l), p,
                            [related_concepts |-> <<Concept(FreshName)>>],
                            uuid_next)
               IN  /\ ~r.exc
                   /\ HasNode(r.G, FreshName)
                   /\ NodeAttrs(r.G, FreshName).level = l + 1
                   /\ NodeAttrs(r.G, FreshName).color = PaletteAt((l + 1) % 5)

(* The graph holds a node that an expansion created at level 2, in the      *)
(* third colour of the palette.                                             *)
C24_Witness ==
    \E i \in DOMAIN graph.nodes :
        LET a == graph.nodes[i].attrs
        IN  /\ Get(a, "type", "") = "sub-concept"
            /\ a.level = 2
            /\ a.color = "#FF9800"

----------------------------------------------------------------------------
(* C25: the set of expanded labels belongs to one graph.  After a new root  *)
(* topic is explored or a stored tree is reopened, no label of the new      *)
(* graph is in subnodes_expanded, so every node of the new graph can still  *)
(* be expanded once.                                                        *)
C25_ExpandedSetIsPerGraph ==
    /\ \A resp \in TopicResponses(topic) :
           LET r == Explored(resp)
           IN  (~r.exc /\ r.last.op = "explore") =>
                   NodeLabels(r.graph) \cap r.subnodes_expanded = {}
    /\ \A i \in DOMAIN knowledge_trees :
           LET r == Reopened(i)
           IN  ~r.exc => NodeLabels(r.graph) \cap r.subnodes_expanded = {}

----------------------------------------------------------------------------
(* What the user may leave in the topic input without pressing Explore:     *)
(* the topic as it is, nothing, or another topic.                           *)
EditedTopics == {topic, EmptyStr, <<"X">>}

(* The run at time t in which the topic input reads typed (lines 351-358). *)
TypedAt(typed, t) == Run(Session, [kind |-> "type", text |-> typed], t)

(* C26: whenever a graph is saved or a session is logged, the topic it is   *)
(* filed under is a node of the graph in memory, also after the user edits  *)
(* the topic input without pressing Explore.                                *)
C26_FiledUnderTheRoot ==
    GraphTruthy(graph) =>
        \A typed \in EditedTopics :
            LET r == TypedAt(typed, now + DwellThreshold + 1)
            IN  /\ Logged(r, learning_sessions) =>
                       HasNode(r.graph, LastRecord(r).topic)
                /\ \A i \in DOMAIN r.knowledge_trees :
                       r.knowledge_trees[i] \notin Range(knowledge_trees) =>
                           HasNode(r.graph, r.knowledge_trees[i].topic)

----------------------------------------------------------------------------
(* The labels joined to a label of S by an edge of G. *)
Neighbours(G, S) ==
    {n \in NodeLabels(G) :
        \E i \in DOMAIN G.edges :
            \/ G.edges[i].u \in S /\ G.edges[i].v = n
            \/ G.edges[i].v \in S /\ G.edges[i].u = n}

RECURSIVE ReachableFrom(_, _)
ReachableFrom(G, S) ==
    IF Neighbours(G, S) \subseteq S THEN S
    ELSE ReachableFrom(G, S \cup Neighbours(G, S))

Connected(G) == ReachableFrom(G, {G.nodes[1].label}) = NodeLabels(G)

NoSelfLoop(G) == \A i \in DOMAIN G.edges : G.edges[i].u # G.edges[i].v

(* C27: the graph built by exploring a root topic and expanding nodes is a  *)
(* tree rooted at the topic: it is connected, has one edge less than it has *)
(* nodes, has no self-loop, and every node other than the root has an edge  *)
(* to its parent.                                                           *)
C27_GraphIsTree ==
    GraphTruthy(graph) =>
        /\ Connected(graph)
        /\ NumEdges(graph) = NumNodes(graph) - 1
        /\ NoSelfLoop(graph)
        /\ \A i \in DOMAIN graph.nodes :
               i > 1 => /\ Has(graph.nodes[i].attrs, "parent")
                        /\ HasEdge(graph, graph.nodes[i].label,
                                   graph.nodes[i].attrs.parent)

----------------------------------------------------------------------------
(* C28: successive session records cover disjoint time windows.  The time   *)
(* of all records never exceeds the wall-clock time that has passed, and    *)
(* the records that two later runs log add no more than the wall-clock      *)
(* time since the timer was started, whatever the database does.            *)
C28_RecordsCoverDisjointWindows ==
    /\ SumTimeSpent(learning_sessions) <= now
    /\ \A d1, d2 \in LongDwells :
           \A e1, e2 \in Envs :
               SumTimeSpent(RunAt(ContinueIn(RunAt(SessionIn(e1), now + d1), e2),
                                  now + d1 + d2).learning_sessions)
                       - SumTimeSpent(learning_sessions)
                   <= (now + d1 + d2) - exploration_start_time

(* A record was logged, and each of two later runs, 31 seconds apart, logs  *)
(* one more.                                                                *)
C28_Witness ==
    /\ SumTimeSpent(learning_sessions) > DwellThreshold
    /\ LET r1 == RunAt(Session, now + DwellThreshold + 1)
           r2 == RunAt(Continue(r1), now + 2 * DwellThreshold + 2)
       IN  /\ Logged(r1, learning_sessions)
           /\ Logged(r2, r1.learning_sessions)

----------------------------------------------------------------------------
(* save_knowledge_tree(user_id, topic, nodes, edges, update=True) called at *)
(* time t for stored tree number i with the graph of the session.           *)
UpdatedAt(i, t) ==
    save_knowledge_tree(knowledge_trees, knowledge_trees[i].user_id,
        knowledge_trees[i].topic, nodes_to_dict(graph), edges_to_dict(graph),
        {"update"}, TRUE, t, TRUE)

(* C29: an update of a stored tree changes its node map and its edge map    *)
(* and nothing else of it: created_at, user_id and topic are as they were,  *)
(* and no document is added.                                                *)
C29_UpdateKeepsCreationTime ==
    \A i \in DOMAIN knowledge_trees :
        \A t \in DwellEdges :
            LET saved == UpdatedAt(i, t)
            IN  /\ ~saved.exc
                /\ Len(saved.trees) = Len(knowledge_trees)
                /\ \A j \in DOMAIN knowledge_trees :
                       /\ saved.trees[j].user_id = knowledge_trees[j].user_id
                       /\ saved.trees[j].topic = knowledge_trees[j].topic
                       /\ saved.trees[j].created_at = knowledge_trees[j].created_at

----------------------------------------------------------------------------
(* The record that run r logged lists only nodes of the graph of r. *)
ListsOnlyNodes(r) == LastRecord(r).nodes_explored \subseteq NodeLabels(r.graph)

(* C30: every label in the nodes_explored of a logged record is a node of   *)
(* the graph of the topic the record is logged for: of the record the next  *)
(* run logs, and of the record logged after the topic is explored anew.     *)
C30_ExploredLabelsAreNodes ==
    /\ LET r == RunAt(Session, now + DwellThreshold + 1)
       IN  Logged(r, learning_sessions) => ListsOnlyNodes(r)
    /\ \A resp \in TopicResponses(topic) :
           LET r1 == Explored(resp)
               r2 == RunAt(Continue(r1), now + DwellThreshold + 1)
           IN  (r1.last.op = "explore" /\ Logged(r2, r1.learning_sessions)) =>
                   ListsOnlyNodes(r2)

====
